---------------------------- MODULE Spec2Model ----------------------------
(***************************************************************************)
(* A model of derive/src/lib.rs of vapabi (the VapabiContract derive):     *)
(* the type mapper (rust_type, template_param_type), the token codec       *)
(* generator (to_token, from_token) together with the meaning of the       *)
(* expressions they generate, the identifier sanitizer (input_names,       *)
(* rust_variable), the signature helpers (get_template_names,              *)
(* to_vapabi_param_vec, get_output_kinds) and the derive pipeline          *)
(* (impl_vapabi_derive).                                                   *)
(*                                                                         *)
(* A proc_macro2::TokenStream is a sequence of token strings.  A ParamType *)
(* is a record tagged by its variant.  A native value and a vapabi::Token  *)
(* are records tagged by their Rust type / variant.                        *)
(***************************************************************************)
EXTENDS Integers, Sequences, FiniteSets, TLC

VARIABLES
    pc,         \* the step the run is at
    kind,       \* the ParamType under derivation
    ty,         \* rust_type's output
    bound,      \* template_param_type's output
    shape,      \* the type of the call-site argument offered to the bound
    admitted,   \* whether the generated signature accepts that argument
    value,      \* the native value handed to the generated encode expression
    token,      \* the vapabi::Token the generated decode expression reads
    result,     \* what the generated decode expression evaluates to
    params,     \* a parameter list (inputs or outputs) of a contract member
    names,      \* input_names' output
    tnames,     \* get_template_names' output
    pvec,       \* to_vapabi_param_vec's output
    okinds,     \* get_output_kinds' output
    attrs,      \* the attributes of the derive input
    env,        \* what the pipeline's environment answers
    options,    \* get_options' result
    path,       \* get_option's result
    err,        \* the error message the run ended with
    generated   \* whether Contract::generate ran and its output was returned

typeVars   == <<kind, ty, bound, shape, admitted>>
codecVars  == <<value, token, result>>
sigVars    == <<params, names, tnames, pvec, okinds>>
deriveVars == <<attrs, env, options, path, err, generated>>
vars == <<pc, typeVars, codecVars, sigVars, deriveVars>>

(***************************************************************************)
(* Bounds of the model.                                                    *)
(***************************************************************************)
MaxDepth  == 2    \* nesting depth of Array / FixedArray
MaxLen    == 2    \* length of a variable-length sequence value
MaxIndex  == 1    \* largest slot index handed to template_param_type
MaxParams == 2    \* length of a parameter list
MaxAttrs  == 2    \* number of attributes on the derive input

(***************************************************************************)
(* ParamType (vapabi::ParamType, matched on throughout lib.rs).            *)
(***************************************************************************)
Address          == [tag |-> "Address"]
Bytes            == [tag |-> "Bytes"]
FixedBytes(n)    == [tag |-> "FixedBytes", n |-> n]
IntKind(w)       == [tag |-> "Int", w |-> w]
Uint(w)          == [tag |-> "Uint", w |-> w]
Bool             == [tag |-> "Bool"]
String           == [tag |-> "String"]
Array(k)         == [tag |-> "Array", elem |-> k]
FixedArray(k, n) == [tag |-> "FixedArray", elem |-> k, n |-> n]

LeafKinds ==
    {Address, Bytes, FixedBytes(2), FixedBytes(32), IntKind(8), Uint(256), Bool, String}

ArraySizes == {1, 3}

RECURSIVE KindsUpTo(_)
KindsUpTo(d) ==
    IF d = 0 THEN LeafKinds
    ELSE LET S == KindsUpTo(d - 1) IN
         S \cup {Array(k) : k \in S}
           \cup {FixedArray(k, n) : k \in S, n \in ArraySizes}

Kinds == KindsUpTo(MaxDepth)

\* `#size` interpolates a usize: a suffixed integer literal.
UsizeLit(n) == ToString(n) \o "usize"

(***************************************************************************)
(* rust_type: the native type of a ParamType, as a token stream.           *)
(***************************************************************************)
RECURSIVE rust_type(_)
rust_type(input) ==
    CASE input.tag = "Address" -> <<"vapabi::Address">>
      [] input.tag = "Bytes" -> <<"vapabi::Bytes">>
      [] input.tag = "FixedBytes" /\ input.n = 32 -> <<"vapabi::Hash">>
      [] input.tag = "FixedBytes" /\ input.n # 32 ->
            <<"[", "u8", ";", UsizeLit(input.n), "]">>
      [] input.tag = "Int" -> <<"vapabi::Int">>
      [] input.tag = "Uint" -> <<"vapabi::Uint">>
      [] input.tag = "Bool" -> <<"bool">>
      [] input.tag = "String" -> <<"String">>
      [] input.tag = "Array" -> <<"Vec", "<">> \o rust_type(input.elem) \o <<">">>
      [] input.tag = "FixedArray" ->
            <<"[">> \o rust_type(input.elem) \o <<",", UsizeLit(input.n), "]">>


(***************************************************************************)
(* template_param_type: the generic bound of call-site slot `index`, a     *)
(* comma-separated list of `slot: Trait<arg>` clauses.                     *)
(***************************************************************************)
Clause(slot, trait, arg) == [slot |-> slot, trait |-> trait, arg |-> arg]

\* The element slot bounded by the innermost leaf's type instead.
RECURSIVE element_target_innermost(_)
element_target_innermost(elem) ==
    IF elem.tag \in {"Array", "FixedArray"}
    THEN element_target_innermost(elem.elem)
    ELSE rust_type(elem)

\* `let t = rust_type(&*kind)`: the type the element slot converts into.
element_target(elem) == rust_type(elem)

template_param_type(input, index) ==
    LET t_ident == "T" \o ToString(index)
        u_ident == "U" \o ToString(index)
    IN CASE input.tag = "Address" -> <<Clause(t_ident, "Into", <<"vapabi::Address">>)>>
         [] input.tag = "Bytes" -> <<Clause(t_ident, "Into", <<"vapabi::Bytes">>)>>
         [] input.tag = "FixedBytes" /\ input.n = 32 ->
               <<Clause(t_ident, "Into", <<"vapabi::Hash">>)>>
         [] input.tag = "FixedBytes" /\ input.n # 32 ->
               <<Clause(t_ident, "Into", <<"[", "u8", ";", UsizeLit(input.n), "]">>)>>
         [] input.tag = "Int" -> <<Clause(t_ident, "Into", <<"vapabi::Int">>)>>
         [] input.tag = "Uint" -> <<Clause(t_ident, "Into", <<"vapabi::Uint">>)>>
         [] input.tag = "Bool" -> <<Clause(t_ident, "Into", <<"bool">>)>>
         [] input.tag = "String" -> <<Clause(t_ident, "Into", <<"String">>)>>
         [] input.tag = "Array" ->
               <<Clause(t_ident, "IntoIterator", <<"Item", "=", u_ident>>),
                 Clause(u_ident, "Into", element_target(input.elem))>>
         [] input.tag = "FixedArray" ->
               <<Clause(t_ident, "Into", <<"[", u_ident, ";", UsizeLit(input.n), "]">>),
                 Clause(u_ident, "Into", element_target(input.elem))>>

(***************************************************************************)
(* from_template_param: the conversion the generated function body applies *)
(* to the call-site argument before encoding it.                           *)
(***************************************************************************)
from_template_param(input) ==
    CASE input.tag = "Array" -> "into_iter.map(Into::into).collect"
      [] input.tag = "FixedArray" -> "Box<[_]>.into_vec.into_iter.map(Into::into).collect"
      [] OTHER -> "into"

(***************************************************************************)
(* The types a caller may offer for a slot, and which of them the compiler *)
(* accepts for the generated clauses.                                      *)
(*   Canon(t)    the native type t itself                                  *)
(*   Conv(t)     a foreign type whose only conversion is Into<t>           *)
(*   Iter(s)     a foreign collection, IntoIterator<Item = s>, with no     *)
(*               conversion into any other type                            *)
(*   Arr(s, n)   the array type [s; n]                                     *)
(***************************************************************************)
Canon(t)  == [sh |-> "Canon", t |-> t]
Conv(t)   == [sh |-> "Conv", t |-> t]
Iter(s)   == [sh |-> "Iter", item |-> s]
Arr(s, n) == [sh |-> "Arr", item |-> s, n |-> n]

RECURSIVE Shapes(_)
Shapes(k) ==
    {Canon(rust_type(k)), Conv(rust_type(k))}
      \cup (IF k.tag = "Array" THEN {Iter(s) : s \in Shapes(k.elem)} ELSE {})
      \cup (IF k.tag = "FixedArray" THEN {Arr(s, k.n) : s \in Shapes(k.elem)} ELSE {})

\* `s: Into<t>`: the reflexive conversion or the one a Conv type declares.
SatisfiesInto(s, t) == s.sh \in {"Canon", "Conv"} /\ s.t = t

\* `s: IntoIterator`, and its Item type.
IsVecType(t) == Len(t) >= 3 /\ t[1] = "Vec" /\ t[2] = "<" /\ t[Len(t)] = ">"
HasItem(s) == s.sh = "Iter" \/ (s.sh = "Canon" /\ IsVecType(s.t))
ItemOf(s) == IF s.sh = "Iter" THEN s.item ELSE Canon(SubSeq(s.t, 3, Len(s.t) - 1))

\* Whether argument type s satisfies the clause list b of one slot.
Admits(b, s) ==
    IF Len(b) = 1 THEN SatisfiesInto(s, b[1].arg)
    ELSE IF b[1].trait = "IntoIterator"
         THEN HasItem(s) /\ SatisfiesInto(ItemOf(s), b[2].arg)
         ELSE /\ s.sh = "Arr"
              /\ b[1].arg = <<"[", b[2].slot, ";", UsizeLit(s.n), "]">>
              /\ SatisfiesInto(s.item, b[2].arg)

\* Whether the conversion from_template_param generates type-checks on s:
\* it converts one level of items with Into::into, and the whole otherwise.
ConversionAccepts(conv, input, s) ==
    CASE conv = "into" -> SatisfiesInto(s, rust_type(input))
      [] conv = "into_iter.map(Into::into).collect" ->
            HasItem(s) /\ SatisfiesInto(ItemOf(s), rust_type(input.elem))
      [] OTHER -> s.sh = "Arr" /\ SatisfiesInto(s.item, rust_type(input.elem))

(***************************************************************************)
(* Idle values of the variables a specification does not use.              *)
(***************************************************************************)
NoKind  == [tag |-> "none"]
NoShape == [sh |-> "none"]
NoValue == [ty |-> "none"]
NoToken == [tag |-> "none"]
NoResult == [ok |-> "none"]

TypeIdle   == kind = NoKind /\ ty = <<>> /\ bound = <<>> /\ shape = NoShape /\ admitted = FALSE
CodecIdle  == value = NoValue /\ token = NoToken /\ result = NoResult
SigIdle    == params = <<>> /\ names = <<>> /\ tnames = <<>> /\ pvec = <<>> /\ okinds = <<>>
DeriveIdle == /\ attrs = <<>> /\ env = <<>> /\ options = <<>> /\ path = <<>>
              /\ err = "" /\ generated = FALSE

(***************************************************************************)
(* SpecType: the type mapper applied to one ParamType.                     *)
(***************************************************************************)
InitType ==
    /\ pc = "start"
    /\ kind \in Kinds
    /\ ty = <<>> /\ bound = <<>> /\ shape = NoShape /\ admitted = FALSE
    /\ CodecIdle /\ SigIdle /\ DeriveIdle

RustType ==
    /\ pc = "start"
    /\ pc' = "rust_type"
    /\ ty' = rust_type(kind)
    /\ UNCHANGED <<kind, bound, shape, admitted, codecVars, sigVars, deriveVars>>

TemplateParamType ==
    /\ pc = "start"
    /\ \E index \in 0..MaxIndex, s \in Shapes(kind) :
          /\ bound' = template_param_type(kind, index)
          /\ shape' = s
          /\ admitted' = (/\ Admits(template_param_type(kind, index), s)
                          /\ ConversionAccepts(from_template_param(kind), kind, s))
    /\ pc' = "template_param_type"
    /\ UNCHANGED <<kind, ty, codecVars, sigVars, deriveVars>>

NextType == RustType \/ TemplateParamType

SpecType == InitType /\ [][NextType]_vars


(***************************************************************************)
(* Native values, by the type rust_type names.                             *)
(***************************************************************************)
VAddress(a) == [ty |-> "Address", a |-> a]
VBytes(b)   == [ty |-> "Bytes", bytes |-> b]          \* vapabi::Bytes = Vec<u8>
VHash(h)    == [ty |-> "Hash", h |-> h]               \* vapabi::Hash wraps [u8; 32]
VU8Array(a) == [ty |-> "u8array", arr |-> a]          \* [u8; n]
VInt(i)     == [ty |-> "Int", i |-> i]
VUint(u)    == [ty |-> "Uint", u |-> u]
VBool(b)    == [ty |-> "bool", b |-> b]
VString(s)  == [ty |-> "String", s |-> s]
VVec(xs)    == [ty |-> "Vec", items |-> xs]
VArray(xs)  == [ty |-> "array", items |-> xs]         \* [T; n]
VSome(x)    == [ty |-> "Some", some |-> x]            \* Option::Some
VNone       == [ty |-> "None"]                        \* Option::None

SeqsOfLen(S, n) == [1..n -> S]
SeqsUpTo(S, n)  == UNION {SeqsOfLen(S, m) : m \in 0..n}

ByteSeqs(n) == {[i \in 1..n |-> 0], [i \in 1..n |-> (i * 37) % 256]}

\* Every value of native_type(k), over small leaf domains.
RECURSIVE Values(_)
Values(k) ==
    CASE k.tag = "Address" -> {VAddress(0), VAddress(7)}
      [] k.tag = "Bytes" -> {VBytes(<<>>), VBytes(<<1, 255>>)}
      [] k.tag = "FixedBytes" /\ k.n = 32 -> {VHash(b) : b \in ByteSeqs(32)}
      [] k.tag = "FixedBytes" /\ k.n # 32 -> {VU8Array(b) : b \in ByteSeqs(k.n)}
      [] k.tag = "Int" -> {VInt(0), VInt(255)}
      [] k.tag = "Uint" -> {VUint(0), VUint(255)}
      [] k.tag = "Bool" -> {VBool(TRUE), VBool(FALSE)}
      [] k.tag = "String" -> {VString(""), VString("abc")}
      [] k.tag = "Array" -> {VVec(xs) : xs \in SeqsUpTo(Values(k.elem), MaxLen)}
      [] k.tag = "FixedArray" -> {VArray(xs) : xs \in SeqsOfLen(Values(k.elem), k.n)}

(***************************************************************************)
(* vapabi::Token and its extraction operations.                            *)
(***************************************************************************)
Token(variant, v)      == [tag |-> variant, v |-> v]
TokenList(variant, ts) == [tag |-> variant, items |-> ts]

Some(x) == [some |-> TRUE, x |-> x]
None    == [some |-> FALSE]

to_address(t)     == IF t.tag = "Address" THEN Some(t.v) ELSE None
to_bytes(t)       == IF t.tag = "Bytes" THEN Some(t.v) ELSE None
to_fixed_bytes(t) == IF t.tag = "FixedBytes" THEN Some(t.v) ELSE None
to_int(t)         == IF t.tag = "Int" THEN Some(t.v) ELSE None
to_uint(t)        == IF t.tag = "Uint" THEN Some(t.v) ELSE None
to_bool(t)        == IF t.tag = "Bool" THEN Some(t.v) ELSE None
to_string(t)      == IF t.tag = "String" THEN Some(t.v) ELSE None
to_array(t)       == IF t.tag = "Array" THEN Some(t.items) ELSE None

(***************************************************************************)
(* to_token: the value of the encode expression generated for `kind`,      *)
(* evaluated with `name` bound to a native value.                          *)
(***************************************************************************)
\* `.as_ref().to_vec()` of a Hash or a [u8; n]
AsRefToVec(x) == VBytes(IF x.ty = "Hash" THEN x.h ELSE x.arr)

RECURSIVE to_token(_, _)
to_token(name, k) ==
    CASE k.tag = "Address" -> Token("Address", name)
      [] k.tag = "Bytes" -> Token("Bytes", name)
      [] k.tag = "FixedBytes" -> Token("FixedBytes", AsRefToVec(name))
      [] k.tag = "Int" -> Token("Int", name)
      [] k.tag = "Uint" -> Token("Uint", name)
      [] k.tag = "Bool" -> Token("Bool", name)
      [] k.tag = "String" -> Token("String", name)
      [] k.tag = "Array" ->
            LET v == [i \in 1..Len(name.items) |-> to_token(name.items[i], k.elem)]
            IN TokenList("Array", v)
      [] k.tag = "FixedArray" ->
            LET v == [i \in 1..Len(name.items) |-> to_token(name.items[i], k.elem)]
            IN TokenList("FixedArray", v)

(***************************************************************************)
(* from_token: the outcome of the decode expression generated for `kind`,  *)
(* evaluated on a token: a value, or the panic of `.expect(INTERNAL_ERR)`  *)
(* / `copy_from_slice`.                                                    *)
(***************************************************************************)
Ok(x) == [ok |-> TRUE, val |-> x]
Fault == [ok |-> FALSE]

\* `opt.expect(INTERNAL_ERR)`
Expect(opt) == IF opt.some THEN Ok(opt.x) ELSE Fault

\* `let mut result = [0u8; size]; result.copy_from_slice(&v); result`
CopyFromSlice(size, v) == IF Len(v.bytes) = size THEN Ok(v.bytes) ELSE Fault

RECURSIVE from_token(_, _)
from_token(k, t) ==
    CASE k.tag = "Address" -> Expect(to_address(t))
      [] k.tag = "Bytes" -> Expect(to_bytes(t))
      [] k.tag = "FixedBytes" /\ k.n = 32 ->
            LET v == Expect(to_fixed_bytes(t)) IN
            IF ~v.ok THEN Fault
            ELSE LET r == CopyFromSlice(32, v.val) IN
                 IF r.ok THEN Ok(VHash(r.val)) ELSE Fault
      [] k.tag = "FixedBytes" /\ k.n # 32 ->
            LET v == Expect(to_fixed_bytes(t)) IN
            IF ~v.ok THEN Fault
            ELSE LET r == CopyFromSlice(k.n, v.val) IN
                 IF r.ok THEN Ok(VU8Array(r.val)) ELSE Fault
      [] k.tag = "Int" -> Expect(to_int(t))
      [] k.tag = "Uint" -> Expect(to_uint(t))
      [] k.tag = "Bool" -> Expect(to_bool(t))
      [] k.tag = "String" -> Expect(to_string(t))
      [] k.tag = "Array" ->
            LET a == Expect(to_array(t)) IN
            IF ~a.ok THEN Fault
            ELSE LET inner == [i \in 1..Len(a.val) |-> from_token(k.elem, a.val[i])] IN
                 IF \E i \in 1..Len(inner) : ~inner[i].ok THEN Fault
                 ELSE Ok(VVec([i \in 1..Len(inner) |-> inner[i].val]))
      [] k.tag = "FixedArray" ->
            \* iter is a lazy map over the tokens; the array holds the k.n
            \* results of iter.next(), each an Option.  (`iter` is bound
            \* without `mut`; next() is read as advancing it.)
            LET a == Expect(to_array(t)) IN
            IF ~a.ok THEN Fault
            ELSE LET pulled == IF Len(a.val) < k.n THEN Len(a.val) ELSE k.n
                     inner == [i \in 1..pulled |-> from_token(k.elem, a.val[i])]
                 IN IF \E i \in 1..pulled : ~inner[i].ok THEN Fault
                    ELSE Ok(VArray([i \in 1..k.n |->
                             IF i <= pulled THEN VSome(inner[i].val) ELSE VNone]))

(***************************************************************************)
(* Tokens the wire decoder may hand to the decode expression for `kind`:   *)
(* not necessarily ones to_token built.                                    *)
(***************************************************************************)
RECURSIVE SampleValues(_)
SampleValues(k) ==
    CASE k.tag = "Array" ->
            {VVec(<<>>)} \cup {VVec(<<x>>) : x \in SampleValues(k.elem)}
      [] k.tag = "FixedArray" ->
            {VArray([i \in 1..k.n |-> x]) : x \in SampleValues(k.elem)}
      [] OTHER -> Values(k)

WireTokens(k) ==
    IF k.tag \in {"Array", "FixedArray"}
    THEN LET elems == {to_token(x, k.elem) : x \in SampleValues(k.elem)} IN
         {TokenList(variant, ts) :
            variant \in {"Array", "FixedArray"}, ts \in SeqsUpTo(elems, MaxLen + 1)}
    ELSE UNION {{to_token(x, l) : x \in Values(l)} : l \in LeafKinds}

(***************************************************************************)
(* SpecCodec: the generated encode and decode expressions of one           *)
(* ParamType, run on a value and on a token.                               *)
(***************************************************************************)
InitCodec ==
    /\ pc = "start"
    /\ kind \in Kinds
    /\ ty = <<>> /\ bound = <<>> /\ shape = NoShape /\ admitted = FALSE
    /\ CodecIdle /\ SigIdle /\ DeriveIdle

\* The generated encoder runs on a caller's value.
ToToken ==
    /\ pc = "start"
    /\ \E v \in Values(kind) :
          /\ value' = v
          /\ token' = to_token(v, kind)
    /\ pc' = "to_token"
    /\ UNCHANGED <<result, typeVars, sigVars, deriveVars>>

\* A token arrives from the wire decoder.
WireToken ==
    /\ pc = "start"
    /\ \E t \in WireTokens(kind) : token' = t
    /\ pc' = "wire"
    /\ UNCHANGED <<value, result, typeVars, sigVars, deriveVars>>

\* The generated decoder runs on the token at hand.
FromToken ==
    /\ pc \in {"to_token", "wire"}
    /\ result' = from_token(kind, token)
    /\ pc' = "from_token"
    /\ UNCHANGED <<value, token, typeVars, sigVars, deriveVars>>

NextCodec == ToToken \/ WireToken \/ FromToken

SpecCodec == InitCodec /\ [][NextCodec]_vars


(***************************************************************************)
(* Claims about the token codec (SpecCodec).                               *)
(***************************************************************************)
Encoded == pc \in {"to_token", "from_token"} /\ value # NoValue
RoundTripped == pc = "from_token" /\ value # NoValue

\* C1: decoding the token that to_token built for a value v of kind T gives
\* back v itself: no fault, same shape, same elements.
C1_RoundTrip == RoundTripped => result = Ok(value)

\* C2: decoding a FixedArray(elem, n) from an array token that carries fewer
\* than n element tokens ends in a decode fault, never in an array value.
C2_ShortFixedArrayFaults ==
    (/\ pc = "from_token"
     /\ kind.tag = "FixedArray"
     /\ token.tag \in {"Array", "FixedArray"}
     /\ Len(token.items) < kind.n) => result = Fault

\* Whether token t carries, at every nesting level, the variant kind k implies.
RECURSIVE TokenMatches(_, _)
TokenMatches(t, k) ==
    /\ t.tag = k.tag
    /\ k.tag \in {"Array", "FixedArray"} =>
          \A i \in 1..Len(t.items) : TokenMatches(t.items[i], k.elem)

\* C9: to_token builds the token variant the kind implies at every nesting
\* level, and from_token for the same kind never faults on that token.
C9_VariantMatching ==
    /\ Encoded => TokenMatches(token, kind)
    /\ RoundTripped => result.ok

(***************************************************************************)
(* Claims about the type mapper (SpecType).                                *)
(***************************************************************************)
\* The reference mapping of one ParamType, element types taken from rust_type.
NativeTypeOf(k) ==
    CASE k.tag = "Address" -> <<"vapabi::Address">>
      [] k.tag = "Bytes" -> <<"vapabi::Bytes">>
      [] k.tag = "FixedBytes" ->
            IF k.n = 32 THEN <<"vapabi::Hash">>
            ELSE <<"[", "u8", ";", UsizeLit(k.n), "]">>
      [] k.tag = "Int" -> <<"vapabi::Int">>
      [] k.tag = "Uint" -> <<"vapabi::Uint">>
      [] k.tag = "Bool" -> <<"bool">>
      [] k.tag = "String" -> <<"String">>
      [] k.tag = "Array" -> <<"Vec", "<">> \o rust_type(k.elem) \o <<">">>
      [] k.tag = "FixedArray" ->
            <<"[">> \o rust_type(k.elem) \o <<";", UsizeLit(k.n), "]">>

\* C5: rust_type maps every ParamType to its native type; FixedArray(e, n)
\* gives the fixed-size array type [rust_type(e); n].
C5_NativeTypeMapping == pc = "rust_type" => ty = NativeTypeOf(kind)

IsLeaf(k) == k.tag \notin {"Array", "FixedArray"}

\* A two-level iterable whose inner items convert into native_type(leaf).
TwoLevelIterable(s, leaf) ==
    /\ HasItem(s)
    /\ HasItem(ItemOf(s))
    /\ SatisfiesInto(ItemOf(ItemOf(s)), rust_type(leaf))

\* C7 as claimed: for Array(Array(leaf)) the generated bound and conversion
\* admit any two-level iterable of iterables of values convertible into the
\* leaf's native type.
C7_NestedBound ==
    (/\ pc = "template_param_type"
     /\ kind.tag = "Array"
     /\ kind.elem.tag = "Array"
     /\ IsLeaf(kind.elem.elem)
     /\ TwoLevelIterable(shape, kind.elem.elem)) => admitted

\* C7 as amended: for Array(Array(leaf)) the bound does not nest; an
\* argument is admitted exactly when it is an iterable whose items are, or
\* convert as a whole into, the canonical Vec<native_type(leaf)>.
C7_OneLevelBound ==
    (/\ pc = "template_param_type"
     /\ kind.tag = "Array"
     /\ kind.elem.tag = "Array"
     /\ IsLeaf(kind.elem.elem)) =>
        (admitted <=>
            /\ HasItem(shape)
            /\ SatisfiesInto(ItemOf(shape),
                             <<"Vec", "<">> \o NativeTypeOf(kind.elem.elem) \o <<">">>))

C7_Witness ==
    /\ pc = "template_param_type"
    /\ kind = Array(Array(Uint(256)))
    /\ shape = Iter(Iter(Conv(<<"vapabi::Uint">>)))
    /\ bound = <<Clause("T0", "IntoIterator", <<"Item", "=", "U0">>),
                 Clause("U0", "Into", <<"Vec", "<", "vapabi::Uint", ">">>)>>
    /\ ~admitted

(***************************************************************************)
(* Identifier sanitizer.  A name is a sequence of one-character strings.   *)
(***************************************************************************)
UpperChars == <<"A", "B", "C", "D", "E", "F", "G", "H", "I", "J", "K", "L", "M",
                "N", "O", "P", "Q", "R", "S", "T", "U", "V", "W", "X", "Y", "Z">>
LowerChars == <<"a", "b", "c", "d", "e", "f", "g", "h", "i", "j", "k", "l", "m",
                "n", "o", "p", "q", "r", "s", "t", "u", "v", "w", "x", "y", "z">>

is_uppercase(c) == \E i \in 1..Len(UpperChars) : UpperChars[i] = c
is_lowercase(c) == \E i \in 1..Len(LowerChars) : LowerChars[i] = c
to_lowercase(c) ==
    IF is_uppercase(c)
    THEN LowerChars[CHOOSE i \in 1..Len(UpperChars) : UpperChars[i] = c]
    ELSE c
LowerWord(w) == [i \in 1..Len(w) |-> to_lowercase(w[i])]

\* heck's word splitter, run on a name of letters, digits and underscores
\* (one unicode word): i is the character looked at, init the start of the
\* current word, mode the case of the previous cased character of the word,
\* first whether no word was written yet, out the text written so far.
RECURSIVE SnakeScan(_, _, _, _, _, _)
SnakeScan(word, i, init, mode, first, out) ==
    IF i > Len(word) THEN out
    ELSE LET c == word[i]
             sep == IF first THEN <<>> ELSE <<"_">>
         IN
         IF c = "_"
         THEN SnakeScan(word, i + 1, IF init = i THEN init + 1 ELSE init, mode, first, out)
         ELSE IF i = Len(word)
         THEN out \o sep \o LowerWord(SubSeq(word, init, Len(word)))
         ELSE LET next == word[i + 1]
                  next_mode == IF is_lowercase(c) THEN "Lowercase"
                               ELSE IF is_uppercase(c) THEN "Uppercase"
                               ELSE mode
              IN
              IF next = "_" \/ (next_mode = "Lowercase" /\ is_uppercase(next))
              THEN SnakeScan(word, i + 1, i + 1, "Boundary", FALSE,
                             out \o sep \o LowerWord(SubSeq(word, init, i)))
              ELSE IF mode = "Uppercase" /\ is_uppercase(c) /\ is_lowercase(next)
              THEN SnakeScan(word, i + 1, i, "Boundary", FALSE,
                             out \o sep \o LowerWord(SubSeq(word, init, i - 1)))
              ELSE SnakeScan(word, i + 1, init, next_mode, first, out)

\* heck::SnakeCase::to_snake_case
to_snake_case(name) == SnakeScan(name, 1, 1, "Boundary", TRUE, <<>>)

Self_kw  == <<"s", "e", "l", "f">>
Self_esc == <<"_", "s", "e", "l", "f">>

rust_variable(name) ==
    IF name = Self_kw THEN Self_esc ELSE to_snake_case(name)

\* the decimal digits `{}` formats an index with
RECURSIVE Decimal(_)
Decimal(n) == IF n < 10 THEN <<ToString(n)>> ELSE Decimal(n \div 10) \o <<ToString(n % 10)>>

\* input_names numbering the unnamed parameters from one.
input_names_one_based(inputs) ==
    [i \in 1..Len(inputs) |->
        IF inputs[i].name = <<>>
        THEN <<"p", "a", "r", "a", "m">> \o Decimal(i)
        ELSE rust_variable(inputs[i].name)]

input_names(inputs) ==
    [i \in 1..Len(inputs) |->
        IF inputs[i].name = <<>>
        THEN <<"p", "a", "r", "a", "m">> \o Decimal(i - 1)
        ELSE rust_variable(inputs[i].name)]

get_template_names(kinds) ==
    [i \in 1..Len(kinds) |-> <<"T">> \o Decimal(i - 1)]

(***************************************************************************)
(* Reified parameters and the aggregated output type.                      *)
(***************************************************************************)
RECURSIVE to_syntax_string(_)
to_syntax_string(param_type) ==
    CASE param_type.tag = "Address" -> <<"vapabi::ParamType::Address">>
      [] param_type.tag = "Bytes" -> <<"vapabi::ParamType::Bytes">>
      [] param_type.tag = "Int" ->
            <<"vapabi::ParamType::Int", "(", UsizeLit(param_type.w), ")">>
      [] param_type.tag = "Uint" ->
            <<"vapabi::ParamType::Uint", "(", UsizeLit(param_type.w), ")">>
      [] param_type.tag = "Bool" -> <<"vapabi::ParamType::Bool">>
      [] param_type.tag = "String" -> <<"vapabi::ParamType::String">>
      [] param_type.tag = "Array" ->
            <<"vapabi::ParamType::Array", "(", "Box::new", "(">>
               \o to_syntax_string(param_type.elem) \o <<")", ")">>
      [] param_type.tag = "FixedBytes" ->
            <<"vapabi::ParamType::FixedBytes", "(", UsizeLit(param_type.n), ")">>
      [] param_type.tag = "FixedArray" ->
            <<"vapabi::ParamType::FixedArray", "(", "Box::new", "(">>
               \o to_syntax_string(param_type.elem)
               \o <<")", ",", UsizeLit(param_type.n), ")">>

\* vec![ vapabi::Param { name: #name.to_owned(), kind: #kind }, ... ]
to_vapabi_param_vec(ps) ==
    [i \in 1..Len(ps) |->
        [name |-> ps[i].name, kind |-> to_syntax_string(ps[i].kind)]]

\* #(#outs),*
RECURSIVE CommaSeparated(_)
CommaSeparated(outs) ==
    IF Len(outs) = 0 THEN <<>>
    ELSE IF Len(outs) = 1 THEN outs[1]
    ELSE outs[1] \o <<",">> \o CommaSeparated(Tail(outs))

\* get_output_kinds without its single-output arm: one output becomes `(T)`.
get_output_kinds_always_tuple(outputs) ==
    IF Len(outputs) = 0 THEN <<"(", ")">>
    ELSE LET outs == [i \in 1..Len(outputs) |-> rust_type(outputs[i].kind)]
         IN <<"(">> \o CommaSeparated(outs) \o <<")">>

get_output_kinds(outputs) ==
    CASE Len(outputs) = 0 -> <<"(", ")">>
      [] Len(outputs) = 1 -> rust_type(outputs[1].kind)
      [] OTHER ->
            LET outs == [i \in 1..Len(outputs) |-> rust_type(outputs[i].kind)]
            IN <<"(">> \o CommaSeparated(outs) \o <<")">>

(***************************************************************************)
(* SpecSig: the per-list helpers applied to one parameter list.            *)
(***************************************************************************)
Param(name, k) == [name |-> name, kind |-> k]

Chars_to     == <<"t", "o">>
Chars_Self   == <<"S", "e", "l", "f">>
Chars_SELF   == <<"S", "E", "L", "F">>
Chars_param0 == <<"p", "a", "r", "a", "m", "0">>
Chars_param1 == <<"p", "a", "r", "a", "m", "1">>
Chars_fooBar == <<"f", "o", "o", "B", "a", "r">>
Chars_foo_bar == <<"f", "o", "o", "_", "b", "a", "r">>

ParamNames ==
    {<<>>, Chars_to, Self_kw, Chars_Self, Chars_SELF, Self_esc,
     Chars_param0, Chars_param1, Chars_fooBar, Chars_foo_bar}

SigKinds ==
    {Uint(256), Bool, String, FixedBytes(32), Array(Address), FixedArray(Bool, 3)}

ParamSamples ==
    {Param(n, Uint(256)) : n \in ParamNames}
      \cup {Param(n, k) : n \in {<<>>, Chars_to}, k \in SigKinds}

InitSig ==
    /\ pc = "start"
    /\ params \in SeqsUpTo(ParamSamples, MaxParams)
    /\ names = <<>> /\ tnames = <<>> /\ pvec = <<>> /\ okinds = <<>>
    /\ TypeIdle /\ CodecIdle /\ DeriveIdle

InputNames ==
    /\ pc = "start"
    /\ names' = input_names(params)
    /\ pc' = "input_names"
    /\ UNCHANGED <<params, tnames, pvec, okinds, typeVars, codecVars, deriveVars>>

GetTemplateNames ==
    /\ pc = "start"
    /\ tnames' = get_template_names([i \in 1..Len(params) |-> rust_type(params[i].kind)])
    /\ pc' = "get_template_names"
    /\ UNCHANGED <<params, names, pvec, okinds, typeVars, codecVars, deriveVars>>

ToVapabiParamVec ==
    /\ pc = "start"
    /\ pvec' = to_vapabi_param_vec(params)
    /\ pc' = "to_vapabi_param_vec"
    /\ UNCHANGED <<params, names, tnames, okinds, typeVars, codecVars, deriveVars>>

GetOutputKinds ==
    /\ pc = "start"
    /\ okinds' = get_output_kinds(params)
    /\ pc' = "get_output_kinds"
    /\ UNCHANGED <<params, names, tnames, pvec, typeVars, codecVars, deriveVars>>

NextSig == InputNames \/ GetTemplateNames \/ ToVapabiParamVec \/ GetOutputKinds

SpecSig == InitSig /\ [][NextSig]_vars


(***************************************************************************)
(* Claims about the identifier sanitizer and the signature helpers         *)
(* (SpecSig).                                                              *)
(***************************************************************************)
\* C3: a non-empty declared name whose snake_case form is the keyword `self`
\* gets the escaped identifier `_self`, never `self` itself.
C3_KeywordEscaped ==
    pc = "input_names" =>
        \A i \in 1..Len(params) :
            (params[i].name # <<>> /\ to_snake_case(params[i].name) = Self_kw)
                => (names[i] = Self_esc /\ names[i] # Self_kw)

DeclaredNamesDiffer ==
    \A i, j \in 1..Len(params) :
        (i < j /\ params[i].name # <<>> /\ params[j].name # <<>>)
            => params[i].name # params[j].name

\* C4: in a list whose declared non-empty names are pairwise different, no
\* two positions get the same identifier.
C4_IdentifiersUnique ==
    (pc = "input_names" /\ DeclaredNamesDiffer) =>
        \A i, j \in 1..Len(names) : i < j => names[i] # names[j]

\* The components of a token stream between its top-level commas.
RECURSIVE SplitTop(_, _, _, _, _)
SplitTop(ts, i, depth, cur, acc) ==
    IF i > Len(ts) THEN Append(acc, cur)
    ELSE LET t == ts[i] IN
         IF t = "," /\ depth = 0
         THEN SplitTop(ts, i + 1, depth, <<>>, Append(acc, cur))
         ELSE SplitTop(ts, i + 1,
                       IF t \in {"(", "[", "<"} THEN depth + 1
                       ELSE IF t \in {")", "]", ">"} THEN depth - 1 ELSE depth,
                       Append(cur, t), acc)

IsTuple(ts) == Len(ts) >= 2 /\ ts[1] = "(" /\ ts[Len(ts)] = ")"
TupleComponents(ts) ==
    IF Len(ts) = 2 THEN <<>> ELSE SplitTop(SubSeq(ts, 2, Len(ts) - 1), 1, 0, <<>>, <<>>)

IsTupleOfOutputs ==
    /\ IsTuple(okinds)
    /\ Len(TupleComponents(okinds)) = Len(params)
    /\ \A i \in 1..Len(params) :
          TupleComponents(okinds)[i] = rust_type(params[i].kind)

\* C6: no output gives the unit type, one output its native type alone, and
\* k >= 2 outputs the k-tuple of their native types in declaration order.
C6_OutputAggregation ==
    pc = "get_output_kinds" =>
        CASE Len(params) = 0 -> okinds = <<"(", ")">>
          [] Len(params) = 1 -> okinds = rust_type(params[1].kind)
          [] OTHER -> IsTupleOfOutputs

C6_Witness ==
    /\ pc = "get_output_kinds"
    /\ Len(params) = 2
    /\ params[1].kind = Bool /\ params[2].kind = String
    /\ okinds = <<"(", "bool", ",", "String", ")">>

\* The ParamType a reified kind expression evaluates to.
LitSizes == {1, 2, 3, 8, 32, 256}
ParseUsize(t) == CHOOSE n \in LitSizes : UsizeLit(n) = t

RECURSIVE EvalParamType(_)
EvalParamType(ts) ==
    LET head == ts[1] IN
    CASE head = "vapabi::ParamType::Address" -> Address
      [] head = "vapabi::ParamType::Bytes" -> Bytes
      [] head = "vapabi::ParamType::Bool" -> Bool
      [] head = "vapabi::ParamType::String" -> String
      [] head = "vapabi::ParamType::Int" -> IntKind(ParseUsize(ts[3]))
      [] head = "vapabi::ParamType::Uint" -> Uint(ParseUsize(ts[3]))
      [] head = "vapabi::ParamType::FixedBytes" -> FixedBytes(ParseUsize(ts[3]))
      [] head = "vapabi::ParamType::Array" ->
            Array(EvalParamType(SubSeq(ts, 5, Len(ts) - 2)))
      [] head = "vapabi::ParamType::FixedArray" ->
            FixedArray(EvalParamType(SubSeq(ts, 5, Len(ts) - 4)),
                       ParseUsize(ts[Len(ts) - 1]))

\* The identifier position i (zero-based index i - 1) is to get.
IdentifierAt(i) ==
    IF params[i].name = <<>>
    THEN <<"p", "a", "r", "a", "m">> \o Decimal(i - 1)
    ELSE rust_variable(params[i].name)

\* C10: input_names, get_template_names, to_vapabi_param_vec and the tuple of
\* get_output_kinds each hold one entry per parameter, in the list's order,
\* entry i made from the parameter at position i alone.
C10_OrderAndCount ==
    /\ pc = "input_names" =>
          /\ Len(names) = Len(params)
          /\ \A i \in 1..Len(params) : names[i] = IdentifierAt(i)
    /\ pc = "get_template_names" =>
          /\ Len(tnames) = Len(params)
          /\ \A i \in 1..Len(params) : tnames[i] = <<"T">> \o Decimal(i - 1)
    /\ pc = "to_vapabi_param_vec" =>
          /\ Len(pvec) = Len(params)
          /\ \A i \in 1..Len(params) :
                /\ pvec[i].name = params[i].name
                /\ EvalParamType(pvec[i].kind) = params[i].kind
    /\ (pc = "get_output_kinds" /\ Len(params) >= 2) => IsTupleOfOutputs

C10_Witness ==
    /\ pc = "input_names"
    /\ Len(params) = 2
    /\ params[1].name = Chars_fooBar /\ params[2].name = <<>>
    /\ names = <<Chars_foo_bar, Chars_param1>>


(***************************************************************************)
(* The derive pipeline: impl_vapabi_derive and its helpers.                *)
(*   An attribute:   [name, meta, nested]; meta is what interpret_meta     *)
(*                   gives: "List", "Word", "NameValue", or "None" when    *)
(*                   the attribute is no meta item.                        *)
(*   A nested item:  [nk, name, form, lit]; nk is "Meta" or "Literal",     *)
(*                   form is "NameValueStr", "NameValueInt", "Word".       *)
(***************************************************************************)
Err(msg) == [ok |-> FALSE, err |-> msg]

OptionsAttr == "vapabi_contract_options"

Attr(name, meta, nested) == [name |-> name, meta |-> meta, nested |-> nested]
Nested(nk, name, form, lit) == [nk |-> nk, name |-> name, form |-> form, lit |-> lit]

\* `.find(..)`: the first position of a set of positions.
First(S) == CHOOSE i \in S : \A j \in S : i <= j

get_options(as, name) ==
    LET found == {i \in 1..Len(as) : as[i].meta # "None" /\ as[i].name = name}
    IN IF found # {} /\ as[First(found)].meta = "List"
       THEN Ok(as[First(found)].nested)
       ELSE Err("Unexpected meta item")

str_value_of_meta_item(item, name) ==
    IF item.form = "NameValueStr"
    THEN Ok(item.lit)
    ELSE Err("'" \o name \o "' must be in the form '#[" \o name \o "=something]'")

get_option(opts, name) ==
    LET found == {i \in 1..Len(opts) : opts[i].nk = "Meta" /\ opts[i].name = name}
    IN IF found = {}
       THEN Err("Expected to find option " \o name)
       ELSE str_value_of_meta_item(opts[First(found)], name)

\* normalize_path falling back to a relative path when the variable is unset.
normalize_path_unchecked(relative_path, manifest_dir) ==
    IF manifest_dir = <<>>
    THEN Ok(<<"", relative_path>>)
    ELSE Ok(<<manifest_dir[1], relative_path>>)

\* manifest_dir is env::var("CARGO_MANIFEST_DIR"): <<>> when unset, <<dir>> when set.
normalize_path(relative_path, manifest_dir) ==
    IF manifest_dir = <<>>
    THEN Err("Cannot find manifest file")
    ELSE Ok(<<manifest_dir[1], relative_path>>)

\* fs::File::open(..).chain_err(..); the messages' backquotes are written '.
open_file(normalized_path, readable) ==
    IF readable THEN Ok(normalized_path)
    ELSE Err("Cannot load contract abi from '" \o normalized_path[1] \o "/"
                 \o normalized_path[2] \o "'")

\* Contract::load(source_file)?
load_contract(well_formed) ==
    IF well_formed THEN Ok("contract") ELSE Err("invalid contract abi")

NestedSamples ==
    { <<>>,
      <<Nested("Meta", "path", "NameValueStr", "abi.json")>>,
      <<Nested("Meta", "path", "NameValueInt", "7")>>,
      <<Nested("Meta", "path", "Word", "")>>,
      <<Nested("Literal", "", "", "path")>>,
      <<Nested("Meta", "name", "NameValueStr", "Token")>>,
      <<Nested("Meta", "name", "NameValueStr", "Token"),
        Nested("Meta", "path", "NameValueStr", "abi.json")>>,
      <<Nested("Meta", "path", "Word", ""),
        Nested("Meta", "path", "NameValueStr", "abi.json")>> }

AttrSamples ==
    {Attr(n, m, <<>>) : n \in {OptionsAttr, "doc"}, m \in {"Word", "NameValue", "None"}}
      \cup {Attr(n, "List", ns) : n \in {OptionsAttr, "doc"}, ns \in NestedSamples}

EnvSamples ==
    [manifest : {<<>>, <<"/crate">>}, readable : BOOLEAN, well_formed : BOOLEAN]

InitDerive ==
    /\ pc = "get_options"
    /\ attrs \in SeqsUpTo(AttrSamples, MaxAttrs)
    /\ env \in EnvSamples
    /\ options = <<>> /\ path = <<>> /\ err = "" /\ generated = FALSE
    /\ TypeIdle /\ CodecIdle /\ SigIdle

\* `?` on an error: the run ends with the message; nothing later executes.
Abort(r) ==
    /\ pc' = "error"
    /\ err' = r.err
    /\ UNCHANGED <<attrs, env, options, path, generated>>

GetOptions ==
    /\ pc = "get_options"
    /\ LET r == get_options(attrs, OptionsAttr) IN
       IF r.ok
       THEN /\ options' = r.val
            /\ pc' = "get_option"
            /\ UNCHANGED <<attrs, env, path, err, generated>>
       ELSE Abort(r)
    /\ UNCHANGED <<typeVars, codecVars, sigVars>>

GetOption ==
    /\ pc = "get_option"
    /\ LET r == get_option(options, "path") IN
       IF r.ok
       THEN /\ path' = <<r.val>>
            /\ pc' = "normalize_path"
            /\ UNCHANGED <<attrs, env, options, err, generated>>
       ELSE Abort(r)
    /\ UNCHANGED <<typeVars, codecVars, sigVars>>

NormalizePath ==
    /\ pc = "normalize_path"
    /\ LET r == normalize_path(path[1], env.manifest) IN
       IF r.ok
       THEN /\ path' = r.val
            /\ pc' = "open"
            /\ UNCHANGED <<attrs, env, options, err, generated>>
       ELSE Abort(r)
    /\ UNCHANGED <<typeVars, codecVars, sigVars>>

OpenFile ==
    /\ pc = "open"
    /\ LET r == open_file(path, env.readable) IN
       IF r.ok
       THEN /\ pc' = "load"
            /\ UNCHANGED <<attrs, env, options, path, err, generated>>
       ELSE Abort(r)
    /\ UNCHANGED <<typeVars, codecVars, sigVars>>

LoadContract ==
    /\ pc = "load"
    /\ LET r == load_contract(env.well_formed) IN
       IF r.ok
       THEN /\ pc' = "generate"
            /\ UNCHANGED <<attrs, env, options, path, err, generated>>
       ELSE Abort(r)
    /\ UNCHANGED <<typeVars, codecVars, sigVars>>

\* Ok(c.generate())
Generate ==
    /\ pc = "generate"
    /\ generated' = TRUE
    /\ pc' = "done"
    /\ UNCHANGED <<attrs, env, options, path, err, typeVars, codecVars, sigVars>>

NextDerive ==
    GetOptions \/ GetOption \/ NormalizePath \/ OpenFile \/ LoadContract \/ Generate

SpecDerive == InitDerive /\ [][NextDerive]_vars

(***************************************************************************)
(* Claim about the derive pipeline (SpecDerive).                           *)
(***************************************************************************)
\* The first meta item named vapabi_contract_options is a list, and the
\* first meta item named path in it is `path = "<string literal>"`.
OptionsWellFormed ==
    \E i \in 1..Len(attrs) :
        /\ attrs[i].meta = "List" /\ attrs[i].name = OptionsAttr
        /\ \A j \in 1..(i - 1) : attrs[j].meta = "None" \/ attrs[j].name # OptionsAttr
        /\ \E k \in 1..Len(attrs[i].nested) :
              /\ attrs[i].nested[k].nk = "Meta"
              /\ attrs[i].nested[k].name = "path"
              /\ attrs[i].nested[k].form = "NameValueStr"
              /\ \A l \in 1..(k - 1) :
                    attrs[i].nested[l].nk # "Meta" \/ attrs[i].nested[l].name # "path"

ConfigurationValid ==
    /\ OptionsWellFormed
    /\ env.manifest # <<>>
    /\ env.readable
    /\ env.well_formed

\* C8: a fault in any step before generate ends the run in an error that
\* carries a message, generate never runs and nothing is generated; output
\* is generated only when every earlier step succeeded.
C8_NoPartialGeneration ==
    /\ pc \in {"generate", "done"} => ConfigurationValid
    /\ generated => (pc = "done" /\ ConfigurationValid)
    /\ pc = "error" => (err # "" /\ ~generated /\ ~ConfigurationValid)
    /\ pc = "done" => generated

C8_Witness ==
    /\ pc = "error"
    /\ err = "Cannot find manifest file"
    /\ OptionsWellFormed
    /\ ~generated

=============================================================================
